---- MODULE Spec2Model ----
(***************************************************************************)
(* Model of go/aws/main.go: the sign-in dispatcher (main) and its sign-in  *)
(* methods signinWithGitpod, signinWithGitpodVerbose and signinWithSSO.    *)
(* The repository holds two programs: the basic one (two methods, straight *)
(* line main) and the verbose one (three methods, loop).  `variant` picks  *)
(* the program that is run.  Every external interaction (HTTP call or      *)
(* command) is one action whose outcome is chosen by the outside world.    *)
(***************************************************************************)
EXTENDS Integers, Sequences, FiniteSets, TLC

VARIABLES variant,     \* "basic" | "verbose": which program runs
          env,         \* environment variables (never written by the program)
          gpPath,      \* what exec.LookPath("gp") resolves to
          pc,          \* position of the single thread of control
          idx,         \* index of the sign-in method the dispatcher is at
          invoked,     \* sign-in methods invoked so far, in order
          results,     \* (didSignIn, err) returned by each invoked method
          calls,       \* external HTTP calls and commands issued so far
          stderr,      \* lines written to standard error
          exitCode,    \* exit status of the process
          gitpodHost,  \* local of signinWithGitpodVerbose: gitpodHost.Host
          tkn,         \* local of signinWithGitpodVerbose: tkn.Token
          idtkn,       \* local of signinWithGitpodVerbose: idtkn.Token
          now,         \* time.Now().Unix() read by signinWithGitpodVerbose
          credVars,    \* local of signinWithGitpodVerbose: the map vars
          remaining    \* keys of vars the range loop has not visited yet

vars == <<variant, env, gpPath, pc, idx, invoked, results, calls, stderr,
          exitCode, gitpodHost, tkn, idtkn, now, credVars, remaining>>

----------------------------------------------------------------------------
(* Bounds *)

NumTokens == 2      \* distinct token values a service may answer with
NumCreds == 1       \* distinct credential triples the exchange may answer with
MaxTime == 1        \* distinct readings of the clock

----------------------------------------------------------------------------
(* Values.  Strings of the program are tuples; Empty is the Go string "". *)

Empty == <<>>
Nil == "nil"
ExitSuccess == 0

MetadataTokens == {<<"gitpod-token", i>> : i \in 1..NumTokens}
IdentityTokens == {<<"id-token", i>> : i \in 1..NumTokens}

CredKeys == {"aws_access_key_id", "aws_secret_access_key", "aws_session_token"}
ProfileName == "default"

InstructionalMessage == <<"IDP_AWS_ROLE_ARN environment variable is not set">>
FinalFailureMessage == <<"don't know how to sign in">>

\* the ordered list of sign-in methods of the program that runs
signinMethods ==
    IF variant = "verbose"
    THEN <<"signinWithGitpod", "signinWithGitpodVerbose", "signinWithSSO">>
    ELSE <<"signinWithGitpod", "signinWithSSO">>

\* the line main writes for an attempt's error
ErrorLine(i, err) ==
    IF variant = "verbose" THEN <<"error while logging in", err>>
    ELSE IF signinMethods[i] = "signinWithGitpod"
         THEN <<"login using Gitpod IDP failed", err>>
         ELSE <<"login using SSO failed", err>>

\* url.Parse of GITPOD_HOST: the Host part is only found behind a scheme
urlParse(raw) ==
    IF raw = <<"%zz">> THEN [err |-> TRUE, Host |-> Empty]
    ELSE IF Len(raw) = 2 /\ raw[1] = "https://" THEN [err |-> FALSE, Host |-> <<raw[2]>>]
    ELSE [err |-> FALSE, Host |-> Empty]

\* bodies an HTTP peer may send
Garbage == [json |-> FALSE, hasToken |-> FALSE, token |-> Empty]
Bodies(tokens) ==
    {Garbage, [json |-> TRUE, hasToken |-> FALSE, token |-> Empty]}
    \cup {[json |-> TRUE, hasToken |-> TRUE, token |-> t] : t \in tokens}

\* outcomes of client.Get / client.Do: a transport error (timeout included)
\* or a response of any status
HttpResponses(tokens) ==
    {[err |-> TRUE, status |-> "none", body |-> Garbage]}
    \cup {[err |-> FALSE, status |-> s, body |-> b] :
             s \in {"2xx", "non2xx"}, b \in Bodies(tokens)}

\* variant of DecodeToken that reports no error on a body that is not JSON
DecodeTokenLenient(body, target) ==
    IF body.hasToken THEN [err |-> FALSE, Token |-> body.token]
    ELSE [err |-> FALSE, Token |-> target]

\* json.NewDecoder(body).Decode(&target) for struct{Token string `json:"token"`}
DecodeToken(body, target) ==
    IF ~body.json THEN [err |-> TRUE, Token |-> target]
    ELSE IF body.hasToken THEN [err |-> FALSE, Token |-> body.token]
    ELSE [err |-> FALSE, Token |-> target]

NoCreds == [AccessKeyId |-> Empty, SecretAccessKey |-> Empty, SessionToken |-> Empty]
CredTriples ==
    {[AccessKeyId |-> <<"AKIA", i>>, SecretAccessKey |-> <<"secret", i>>,
      SessionToken |-> <<"session", i>>] : i \in 1..NumCreds}
    \cup {[AccessKeyId |-> <<"AKIA", 1>>, SecretAccessKey |-> <<"secret", 1>>,
           SessionToken |-> Empty]}

\* outcomes of a command's CombinedOutput
CommandFailed == [err |-> TRUE, json |-> FALSE, Credentials |-> NoCreds]
AssumeRoleOutcomes ==
    {CommandFailed, [err |-> FALSE, json |-> FALSE, Credentials |-> NoCreds]}
    \cup {[err |-> FALSE, json |-> TRUE, Credentials |-> c] : c \in CredTriples}
PlainOutcomes ==
    {CommandFailed, [err |-> FALSE, json |-> FALSE, Credentials |-> NoCreds]}

\* variant of VarsOf with two values under each other's key
VarsOfSwapped(c) ==
    [k \in CredKeys |->
        IF k = "aws_access_key_id" THEN c.AccessKeyId
        ELSE IF k = "aws_secret_access_key" THEN c.SessionToken
        ELSE c.SecretAccessKey]

\* the map literal `vars`
VarsOf(c) ==
    [k \in CredKeys |->
        IF k = "aws_access_key_id" THEN c.AccessKeyId
        ELSE IF k = "aws_secret_access_key" THEN c.SecretAccessKey
        ELSE c.SessionToken]

Environments ==
    [GITPOD_WORKSPACE_URL : {Empty, <<"https://ws.gitpod.io">>},
     IDP_AWS_ROLE_ARN     : {Empty, <<"arn:aws:iam::role/demo">>},
     SUPERVISOR_ADDR      : {<<"localhost:22999">>},
     GITPOD_HOST          : {Empty, <<"https://", "gitpod.io">>, <<"%zz">>},
     GITPOD_WORKSPACE_ID  : {Empty, <<"ws-1">>}]

----------------------------------------------------------------------------

\* variant of runningInGitpod without the exec.LookPath test
runningInGitpodIgnoresLookPath ==
    IF env.GITPOD_WORKSPACE_URL = Empty THEN FALSE
    ELSE TRUE

runningInGitpod ==
    IF env.GITPOD_WORKSPACE_URL = Empty THEN FALSE
    ELSE IF gpPath = Empty THEN FALSE
    ELSE TRUE

Init ==
    /\ variant \in {"basic", "verbose"}
    /\ env \in Environments
    /\ gpPath \in {Empty, <<"/usr/bin/gp">>}
    /\ pc = "main"
    /\ idx = 1
    /\ invoked = <<>>
    /\ results = <<>>
    /\ calls = <<>>
    /\ stderr = <<>>
    /\ exitCode = ExitSuccess
    /\ gitpodHost = Empty
    /\ tkn = Empty
    /\ idtkn = Empty
    /\ now = 0
    /\ credVars = VarsOf(NoCreds)
    /\ remaining = {}

Locals == <<gitpodHost, tkn, idtkn, now, credVars, remaining>>
Fixed == <<variant, env, gpPath>>

\* can main call the method at idx
AtMethod(m) ==
    /\ pc = "main"
    /\ idx <= Len(signinMethods)
    /\ signinMethods[idx] = m

\* variant of Return in which main goes on to the next method after a success
ReturnNoShortCircuit(did, err, out) ==
    /\ results' = Append(results, [method |-> signinMethods[idx],
                                   didSignIn |-> did, err |-> err])
    /\ pc' = "main"
    /\ idx' = idx + 1
    /\ stderr' = IF err # Nil THEN Append(out, ErrorLine(idx, err)) ELSE out
    /\ UNCHANGED exitCode

\* variant of Return in which main gives up at the first error
ReturnFatalOnError(did, err, out) ==
    /\ results' = Append(results, [method |-> signinMethods[idx],
                                   didSignIn |-> did, err |-> err])
    /\ IF did \/ err # Nil
       THEN /\ pc' = "done"
            /\ idx' = idx
            /\ stderr' = IF err # Nil THEN Append(out, ErrorLine(idx, err)) ELSE out
       ELSE /\ pc' = "main"
            /\ idx' = idx + 1
            /\ stderr' = out
    /\ UNCHANGED exitCode

\* the running method returns (did, err) to main, which has `out` on stderr:
\* main returns on success, logs a non-nil error, and moves to the next method
Return(did, err, out) ==
    /\ results' = Append(results, [method |-> signinMethods[idx],
                                   didSignIn |-> did, err |-> err])
    /\ IF did
       THEN /\ pc' = "done"
            /\ idx' = idx
            /\ stderr' = out
       ELSE /\ pc' = "main"
            /\ idx' = idx + 1
            /\ stderr' = IF err # Nil THEN Append(out, ErrorLine(idx, err)) ELSE out
    /\ UNCHANGED exitCode


\* variant of SigninWithGitpod without the IDP_AWS_ROLE_ARN test
SigninWithGitpodNoArnCheck ==
    /\ AtMethod("signinWithGitpod")
    /\ invoked' = Append(invoked, "signinWithGitpod")
    /\ IF ~runningInGitpod
       THEN Return(FALSE, Nil, stderr)
       ELSE /\ pc' = "gp_login"
            /\ UNCHANGED <<idx, results, stderr, exitCode>>
    /\ UNCHANGED <<calls, Locals, Fixed>>

\* signinWithGitpod up to the point where the helper command is started
SigninWithGitpod ==
    /\ AtMethod("signinWithGitpod")
    /\ invoked' = Append(invoked, "signinWithGitpod")
    /\ IF ~runningInGitpod
       THEN Return(FALSE, Nil, stderr)
       ELSE IF env.IDP_AWS_ROLE_ARN = Empty
       THEN Return(FALSE, Nil, Append(stderr, InstructionalMessage))
       ELSE /\ pc' = "gp_login"
            /\ UNCHANGED <<idx, results, stderr, exitCode>>
    /\ UNCHANGED <<calls, Locals, Fixed>>

\* variant of GpIdpLogin with the test of the command's error inverted
GpIdpLoginInverted ==
    /\ pc = "gp_login"
    /\ \E o \in PlainOutcomes :
         /\ calls' = Append(calls, [op |-> "gp", args |-> <<"idp", "login", "aws">>,
                                    out |-> o])
         /\ IF ~o.err
            THEN Return(FALSE, "gp idp login failure", stderr)
            ELSE Return(TRUE, Nil, stderr)
    /\ UNCHANGED <<invoked, Locals, Fixed>>

\* exec.Command("gp", "idp", "login", "aws").CombinedOutput() and the return
GpIdpLogin ==
    /\ pc = "gp_login"
    /\ \E o \in PlainOutcomes :
         /\ calls' = Append(calls, [op |-> "gp", args |-> <<"idp", "login", "aws">>,
                                    out |-> o])
         /\ IF o.err
            THEN Return(FALSE, "gp idp login failure", stderr)
            ELSE Return(TRUE, Nil, stderr)
    /\ UNCHANGED <<invoked, Locals, Fixed>>

\* signinWithGitpodVerbose up to the point where the metadata GET is sent.
\* json.Marshal of the request struct and http.NewRequest on the formatted
\* https URL cannot fail, so their error returns are not reachable.
SigninWithGitpodVerbose ==
    /\ AtMethod("signinWithGitpodVerbose")
    /\ invoked' = Append(invoked, "signinWithGitpodVerbose")
    /\ IF ~runningInGitpod
       THEN /\ Return(FALSE, Nil, stderr)
            /\ UNCHANGED gitpodHost
       ELSE IF env.IDP_AWS_ROLE_ARN = Empty
       THEN /\ Return(FALSE, Nil, Append(stderr, InstructionalMessage))
            /\ UNCHANGED gitpodHost
       ELSE IF urlParse(env.GITPOD_HOST).err
       THEN /\ Return(FALSE, "invalid Gitpod host url", stderr)
            /\ UNCHANGED gitpodHost
       ELSE /\ gitpodHost' = urlParse(env.GITPOD_HOST).Host
            /\ pc' = "get_token"
            /\ UNCHANGED <<idx, results, stderr, exitCode>>
    /\ UNCHANGED <<calls, tkn, idtkn, now, credVars, remaining, Fixed>>

\* step 1: client.Get on the supervisor and the decode into &tkn
GetToken ==
    /\ pc = "get_token"
    /\ \E r \in HttpResponses(MetadataTokens) :
         /\ calls' = Append(calls, [op |-> "GET",
                                    args |-> <<env.SUPERVISOR_ADDR, gitpodHost>>,
                                    out |-> r])
         /\ IF r.err
            THEN /\ Return(FALSE, "cannot get gitpod token", stderr)
                 /\ UNCHANGED tkn
            ELSE IF DecodeToken(r.body, tkn).err
            THEN /\ Return(FALSE, "cannot decode gitpod token", stderr)
                 /\ UNCHANGED tkn
            ELSE /\ tkn' = DecodeToken(r.body, tkn).Token
                 /\ pc' = "get_id_token"
                 /\ UNCHANGED <<idx, results, stderr, exitCode>>
    /\ UNCHANGED <<invoked, gitpodHost, idtkn, now, credVars, remaining, Fixed>>

\* step 2: the POST to the identity provider with tkn.Token as bearer, and
\* the decode of its response, which the code stores through &tkn (idtkn is
\* declared but never written)
GetIDToken ==
    /\ pc = "get_id_token"
    /\ \E r \in HttpResponses(IdentityTokens) :
         /\ calls' = Append(calls, [op |-> "POST",
                                    args |-> <<gitpodHost, tkn, env.GITPOD_WORKSPACE_ID>>,
                                    out |-> r])
         /\ IF r.err
            THEN /\ Return(FALSE, "cannot make ID token request", stderr)
                 /\ UNCHANGED tkn
            ELSE IF DecodeToken(r.body, tkn).err
            THEN /\ Return(FALSE, "cannot decode ID token response", stderr)
                 /\ UNCHANGED tkn
            ELSE /\ tkn' = DecodeToken(r.body, tkn).Token
                 /\ pc' = "assume_role"
                 /\ UNCHANGED <<idx, results, stderr, exitCode>>
    /\ UNCHANGED <<invoked, gitpodHost, idtkn, now, credVars, remaining, Fixed>>

\* step 3: aws sts assume-role-with-web-identity with idtkn.Token as the
\* web identity token, and json.Unmarshal of its output into result
AssumeRoleWithWebIdentity ==
    /\ pc = "assume_role"
    /\ \E t \in 1..MaxTime, o \in AssumeRoleOutcomes :
         /\ now' = t
         /\ calls' = Append(calls, [op |-> "sts",
                                    args |-> <<env.IDP_AWS_ROLE_ARN,
                                               <<env.GITPOD_WORKSPACE_ID, t>>,
                                               idtkn>>,
                                    out |-> o])
         /\ IF o.err
            THEN /\ Return(FALSE, "assume-role-with-web-identity failure", stderr)
                 /\ UNCHANGED <<credVars, remaining>>
            ELSE IF ~o.json
            THEN /\ Return(FALSE, "json unmarshal failure", stderr)
                 /\ UNCHANGED <<credVars, remaining>>
            ELSE /\ credVars' = VarsOf(o.Credentials)
                 /\ remaining' = CredKeys
                 /\ pc' = "configure_set"
                 /\ UNCHANGED <<idx, results, stderr, exitCode>>
    /\ UNCHANGED <<invoked, gitpodHost, tkn, idtkn, Fixed>>

\* step 4: one iteration of `for k, v := range vars` (Go visits the keys of
\* a map in an order of its choosing); the method returns after the last one
ConfigureSet ==
    /\ pc = "configure_set"
    /\ \E k \in remaining, o \in PlainOutcomes :
         /\ calls' = Append(calls, [op |-> "set",
                                    args |-> <<ProfileName, k, credVars[k]>>,
                                    out |-> o])
         /\ remaining' = remaining \ {k}
         /\ IF o.err
            THEN Return(FALSE, "configure set failure", stderr)
            ELSE IF remaining \ {k} = {}
            THEN Return(TRUE, Nil, stderr)
            ELSE UNCHANGED <<pc, idx, results, stderr, exitCode>>
    /\ UNCHANGED <<invoked, gitpodHost, tkn, idtkn, now, credVars, Fixed>>

signinWithSSO ==
    /\ AtMethod("signinWithSSO")
    /\ invoked' = Append(invoked, "signinWithSSO")
    /\ Return(FALSE, Nil, stderr)
    /\ UNCHANGED <<calls, Locals, Fixed>>

\* the list is exhausted: the final message is printed and main returns
MainExhausted ==
    /\ pc = "main"
    /\ idx > Len(signinMethods)
    /\ stderr' = Append(stderr, FinalFailureMessage)
    /\ pc' = "done"
    /\ UNCHANGED <<idx, invoked, results, calls, exitCode, Locals, Fixed>>

Next ==
    \/ SigninWithGitpod
    \/ GpIdpLogin
    \/ SigninWithGitpodVerbose
    \/ GetToken
    \/ GetIDToken
    \/ AssumeRoleWithWebIdentity
    \/ ConfigureSet
    \/ signinWithSSO
    \/ MainExhausted

Spec == Init /\ [][Next]_vars

----------------------------------------------------------------------------
(* Vocabulary of the properties *)

Range(q) == {q[i] : i \in DOMAIN q}
NumMethods == Len(signinMethods)
GitpodMethods == {"signinWithGitpod", "signinWithGitpodVerbose"}
VerboseOps == {"GET", "POST", "sts", "set"}
CallIdx(op) == {i \in DOMAIN calls : calls[i].op = op}
VerboseCalls == {i \in DOMAIN calls : calls[i].op \in VerboseOps}
VerboseResults == {k \in DOMAIN results : results[k].method = "signinWithGitpodVerbose"}
ErrResults == {k \in DOMAIN results : results[k].err # Nil}
ErrLines == {j \in DOMAIN stderr : Len(stderr[j]) = 2}
Occurrences(q, x) == Cardinality({j \in DOMAIN q : q[j] = x})

\* did the external call c do what the flow needs of it
CallOk(c) ==
    IF c.op \in {"GET", "POST"} THEN ~c.out.err /\ c.out.body.json
    ELSE IF c.op = "sts" THEN ~c.out.err /\ c.out.json
    ELSE ~c.out.err

\* the field of the credential-exchange output that belongs under a key
FieldOf(c, key) ==
    CASE key = "aws_access_key_id" -> c.AccessKeyId
      [] key = "aws_secret_access_key" -> c.SecretAccessKey
      [] key = "aws_session_token" -> c.SessionToken

----------------------------------------------------------------------------

\* C1: the methods are invoked once each in list order, and when method k is
\* the first to report didSignIn, methods 1..k-1 were invoked before it, no
\* method after k is invoked, main has returned and the final failure message
\* is not on standard error.
C1_FirstSuccessShortCircuits ==
    /\ Len(invoked) <= NumMethods
    /\ invoked = SubSeq(signinMethods, 1, Len(invoked))
    /\ \A k \in DOMAIN results :
         results[k].didSignIn =>
            /\ \A j \in 1..(k - 1) : ~results[j].didSignIn
            /\ Len(invoked) = k
            /\ Len(results) = k
            /\ pc = "done"
            /\ FinalFailureMessage \notin Range(stderr)

C1_Witness ==
    \E k \in DOMAIN results : k >= 2 /\ results[k].didSignIn /\ pc = "done"

\* C2: an error returned by a method is written to standard error exactly
\* once and main goes on to the next method of the list; the final failure
\* message is only there when every method was invoked and none signed in.
C2_ErrorsAreLoggedAndNeverFatal ==
    /\ \A k \in ErrResults :
         /\ ~results[k].didSignIn
         /\ Occurrences(stderr, ErrorLine(k, results[k].err)) = 1
         /\ k < NumMethods => (Len(invoked) > k \/ (pc = "main" /\ idx = k + 1))
    /\ Cardinality(ErrLines) = Cardinality(ErrResults)
    /\ FinalFailureMessage \in Range(stderr) =>
         /\ Len(invoked) = NumMethods
         /\ Len(results) = NumMethods
         /\ \A k \in DOMAIN results : ~results[k].didSignIn

C2_Witness ==
    /\ Cardinality(ErrResults) = 2
    /\ Len(invoked) = NumMethods
    /\ FinalFailureMessage \in Range(stderr)

\* C3: the --web-identity-token handed to aws sts assume-role-with-web-identity
\* is the token field of the response to the identity-provider POST.
C3_WebIdentityTokenIsIdentityToken ==
    \A i \in CallIdx("sts") :
       \E j \in CallIdx("POST") :
          /\ j < i
          /\ calls[j].out.body.hasToken => calls[i].args[3] = calls[j].out.body.token

\* C4: when retrieving the metadata token fails (transport error, non-2xx
\* status or a body that is not JSON) the attempt returns an error and no
\* later call is made.
MetadataRetrievalFailed(r) == r.err \/ r.status = "non2xx" \/ ~r.body.json

C4_MetadataFailureStopsAttempt ==
    \A i \in CallIdx("GET") :
       MetadataRetrievalFailed(calls[i].out) =>
          /\ Len(calls) = i
          /\ \E k \in VerboseResults : ~results[k].didSignIn /\ results[k].err # Nil

\* C5: when the GET, the POST, the credential exchange and every "set" of the
\* verbose flow succeeded, the attempt returns (true, nil) after exactly three
\* "set" commands, one per credential key, each for profile "default" and
\* with the field of the credential-exchange output that belongs to the key.
ExactlyThreeSets ==
    /\ Cardinality(CallIdx("set")) = 3
    /\ \A key \in CredKeys :
         \E s \in CallIdx("sts") :
            Cardinality({i \in CallIdx("set") :
                           calls[i].args = <<"default", key,
                                             FieldOf(calls[s].out.Credentials, key)>>}) = 1

AllVerboseCallsSucceeded ==
    /\ \A op \in {"GET", "POST", "sts"} : CallIdx(op) # {}
    /\ \A i \in VerboseCalls : CallOk(calls[i])

C5_ThreeProfileSetsOnSuccess ==
    \A k \in VerboseResults :
       /\ AllVerboseCallsSucceeded =>
            results[k].didSignIn /\ results[k].err = Nil /\ ExactlyThreeSets
       /\ results[k].didSignIn => ExactlyThreeSets

C5_Witness ==
    /\ \E k \in VerboseResults : results[k].didSignIn
    /\ AllVerboseCallsSucceeded
    /\ \E s \in CallIdx("sts") : calls[s].out.Credentials.SessionToken # Empty

\* C6: when every method was tried without success the process prints the
\* final failure message and ends with a non-zero exit status.
C6_ExhaustionExitsNonZero ==
    (pc = "done" /\ \A k \in DOMAIN results : ~results[k].didSignIn) =>
       /\ FinalFailureMessage \in Range(stderr)
       /\ exitCode # ExitSuccess

\* C7: with GITPOD_WORKSPACE_URL empty or gp not resolvable, both Gitpod
\* methods return (false, nil), the instructional message is not printed and
\* no HTTP call or command is issued, whatever the other variables hold.
C7_NotInGitpodMeansNoAttempt ==
    (env.GITPOD_WORKSPACE_URL = Empty \/ gpPath = Empty) =>
       /\ calls = <<>>
       /\ InstructionalMessage \notin Range(stderr)
       /\ \A k \in DOMAIN results :
            results[k].method \in GitpodMethods =>
               ~results[k].didSignIn /\ results[k].err = Nil

C7_Witness ==
    /\ gpPath = Empty
    /\ env.GITPOD_WORKSPACE_URL # Empty
    /\ env.IDP_AWS_ROLE_ARN = Empty
    /\ VerboseResults # {}

\* C8: with the marker set and gp resolvable but IDP_AWS_ROLE_ARN empty, each
\* Gitpod method returns (false, nil), prints the instructional message once,
\* and issues no HTTP call and no command.
C8_MissingRoleArnPrintsHintOnce ==
    (env.GITPOD_WORKSPACE_URL # Empty /\ gpPath # Empty /\ env.IDP_AWS_ROLE_ARN = Empty) =>
       /\ calls = <<>>
       /\ pc # "gp_login"
       /\ \A k \in DOMAIN results :
            results[k].method \in GitpodMethods =>
               ~results[k].didSignIn /\ results[k].err = Nil
       /\ Occurrences(stderr, InstructionalMessage)
            = Cardinality({k \in DOMAIN results : results[k].method \in GitpodMethods})

C8_Witness ==
    /\ env.GITPOD_WORKSPACE_URL # Empty /\ gpPath # Empty /\ env.IDP_AWS_ROLE_ARN = Empty
    /\ VerboseResults # {}
    /\ Occurrences(stderr, InstructionalMessage) = 2

C10_VerboseOnlyAfterFailedHelperLogin ==
    /\ \A i \in VerboseCalls :
         \E j \in CallIdx("gp") : j < i /\ calls[j].out.err
    /\ (\E j \in CallIdx("gp") : ~calls[j].out.err) =>
         /\ VerboseCalls = {}
         /\ "signinWithGitpodVerbose" \notin Range(invoked)

C10_Witness ==
    /\ CallIdx("GET") # {}
    /\ \E j \in CallIdx("gp") : calls[j].out.err

====
